---- MODULE Spec2Model ----
(***************************************************************************)
(* Model of the release-notes generator (ReleaseNotesGenerator) and of its  *)
(* command line: the wizard and main (cli.ts).                             *)
(*                                                                         *)
(* A repository is a linear history of commits 1..history: commit 1 is the *)
(* root (no parent), commit history is the tip, and the hash of a commit   *)
(* is its number.  0 stands for an absent (undefined / empty) option.      *)
(*                                                                         *)
(* One action is one awaited call of the program together with the         *)
(* synchronous code that follows it up to the next await.                  *)
(***************************************************************************)
EXTENDS Integers, Sequences, FiniteSets, TLC

(***************************************************************************)
(* Bounds of the model.                                                    *)
(***************************************************************************)
MaxHist == 3        \* longest history explored
MaxCount == 4       \* largest maxCommits / commit count explored
MaxChunks == 2      \* longest completion stream explored

(***************************************************************************)
(* Program constants.                                                      *)
(***************************************************************************)
MAX_COMMIT_DIFF_CHARS == 3000
DEFAULT_MAX_COMMITS == 5
RECENT_MAX_COUNT == 50
TRUNCATED_MARKER_LEN == 16
DIFF_HEADER_LEN == 27
DIFF_FOOTER_LEN == 3
NEWLINE_LEN == 1

None == 0

(***************************************************************************)
(* Texts built from git output are sequences of segments.  A segment       *)
(* [src, hash, len] is the first len characters of a source text: the      *)
(* output of `git show hash` (src = "show") or a literal of the program    *)
(* (hash = 0).  The lengths are the real ones, so the 3000 character       *)
(* budget is the program's.                                                *)
(***************************************************************************)
ShowLens == {3000, 3001}

\* the lengths explored where only the detail loop runs
WideShowLens == {1, 2999, 3000, 3001, 3002, 6000}

Seg(src, hash, len) == [src |-> src, hash |-> hash, len |-> len]

Lit(text, len) == <<Seg(text, 0, len)>>

ShowOutput(hash, len) == <<Seg("show", hash, len)>>

RECURSIVE Length(_)
Length(s) == IF s = <<>> THEN 0 ELSE Head(s).len + Length(Tail(s))

\* String.prototype.substring(0, n)
RECURSIVE Substring(_, _)
Substring(s, n) ==
  IF s = <<>> \/ n <= 0 THEN <<>>
  ELSE IF Head(s).len <= n
       THEN <<Head(s)>> \o Substring(Tail(s), n - Head(s).len)
       ELSE <<Seg(Head(s).src, Head(s).hash, n)>>

TruncatedMarker == Lit("\n...[truncated]\n", TRUNCATED_MARKER_LEN)

Newline == Lit("\n", NEWLINE_LEN)

\* Array.prototype.join("\n") of an array of texts
RECURSIVE Join(_)
Join(parts) ==
  IF parts = <<>> THEN <<>>
  ELSE IF Len(parts) = 1 THEN Head(parts)
  ELSE Head(parts) \o Newline \o Join(Tail(parts))

\* a budget test that also cuts a text of exactly the budget
Diff_Inclusive(show) ==
  IF Length(show) >= MAX_COMMIT_DIFF_CHARS
  THEN Substring(show, MAX_COMMIT_DIFF_CHARS) \o TruncatedMarker
  ELSE show

\* getCommitDetails: the diff kept of one show output
Diff(show) ==
  IF Length(show) > MAX_COMMIT_DIFF_CHARS
  THEN Substring(show, MAX_COMMIT_DIFF_CHARS) \o TruncatedMarker
  ELSE show

\* getCommitDetails: the entry pushed on details for one show output
DetailBlob(show) ==
  Join(<<Lit("--- Code changes (diff) ---", DIFF_HEADER_LEN),
         Diff(show),
         Lit("---", DIFF_FOOTER_LEN)>>)

(***************************************************************************)
(* The streamed completion is text over three letters: "a" and "b" are     *)
(* non-blank characters and " " is any white space character.              *)
(***************************************************************************)
Fragments == { <<>>, <<" ">>, <<"a">>, <<" ", "b", " ">> }

IsSpace(ch) == ch = " "

RECURSIVE TrimStart(_)
TrimStart(s) ==
  IF s = <<>> THEN <<>>
  ELSE IF IsSpace(Head(s)) THEN TrimStart(Tail(s)) ELSE s

RECURSIVE TrimEnd(_)
TrimEnd(s) ==
  IF s = <<>> THEN <<>>
  ELSE IF IsSpace(s[Len(s)]) THEN TrimEnd(SubSeq(s, 1, Len(s) - 1)) ELSE s

\* String.prototype.trim
Trim(s) == TrimEnd(TrimStart(s))

(***************************************************************************)
(* The git backend (simple-git over a linear history of h commits).        *)
(***************************************************************************)
Ancestors(c) == 1..c

\* the commits of a set, newest first: the order of `git log`
RECURSIVE NewestFirst(_)
NewestFirst(S) ==
  IF S = {} THEN <<>>
  ELSE LET m == CHOOSE x \in S : \A y \in S : y <= x
       IN  <<m>> \o NewestFirst(S \ {m})

\* git.log({ maxCount: count }): a count that is not positive sets no limit
LogMaxCount(h, count) ==
  IF count > 0
  THEN NewestFirst({c \in 1..h : c > h - count})
  ELSE NewestFirst(1..h)

\* does `<from>^` name a commit of the history
ParentResolves(h, from) == from \in 2..h

\* git.log({ from: `${from}^`, to: to }) runs `git log <from>^...<to>`:
\* the commits reachable from exactly one of from's parent and to
LogRange(h, from, to) ==
  NewestFirst((Ancestors(from - 1) \ Ancestors(to)) \cup
              (Ancestors(to) \ Ancestors(from - 1)))

(***************************************************************************)
(* State.                                                                  *)
(***************************************************************************)
VARIABLES
  history,      \* number of commits of the repository
  pc,           \* position of the run
  entry,        \* "library" or "cli": who runs the generator
  cliOptions,   \* cli.ts: the parsed command-line options
  answers,      \* cli.ts runWizard: the answers built so far
  exitCode,     \* process.exit status, -1 while the process runs
  prompt,       \* name of the last interactive question asked, "" if none
  written,      \* the file written with writeFileSync, if any
  warned,       \* runWizard: the reverse-order warning was printed
  proceed,      \* main: the answer to the confirmation prompt, "" before it
  options,      \* the options the generator was constructed with
  fromCommit,   \* ReleaseNotesGenerator.fromCommit
  toCommit,     \* ReleaseNotesGenerator.toCommit
  maxCommits,   \* ReleaseNotesGenerator.maxCommits
  commits,      \* generateReleaseNotes: the selected commits
  i,            \* getCommitDetails: loop index (1-based)
  details,      \* getCommitDetails: the blobs pushed so far
  request,      \* the chat completion request sent, if any
  stream,       \* "none", "open", "ended" (normally) or "failed"
  chunks,       \* contents of the stream chunks consumed so far
  fullContent,  \* generateReleaseNotes: the accumulator
  stdout,       \* the texts written with process.stdout.write
  result,       \* outcome of generateReleaseNotes
  calls         \* external calls issued so far, in order

vars == <<history, pc, entry, cliOptions, answers, exitCode, prompt, written,
          warned, proceed,
          options, fromCommit, toCommit, maxCommits, commits, i, details, request,
          stream, chunks, fullContent, stdout, result, calls>>

genVars == <<options, fromCommit, toCommit, maxCommits, commits, i, details,
             request, stream, chunks, fullContent, stdout, result>>

Hashes == 0..MaxHist

Running == [status |-> "running", value |-> <<>>, error |-> <<>>]

Returned(text) == [status |-> "returned", value |-> text, error |-> <<>>]

\* an Error whose message is the outer text followed by the text of its cause
Threw(msg) == [status |-> "threw", value |-> <<>>, error |-> msg]

NoRequest == [sent |-> FALSE, model |-> "", date |-> None, gitHistory |-> <<>>]

\* the options object given to the constructor; "" is an absent string
NoGenerator == [built |-> FALSE, repoPath |-> "", deployment |-> "",
                fromCommit |-> None, toCommit |-> None, maxCommits |-> None]

\* CliOptions and WizardAnswers; apiKey and endpoint say whether one is known
NoOptions == [apiKey |-> FALSE, endpoint |-> FALSE, deployment |-> "",
              repoPath |-> "", commitMode |-> "", commitCount |-> None,
              fromCommit |-> None, toCommit |-> None,
              outputMode |-> "", outputFile |-> ""]

NoFile == [dir |-> "", path |-> "", text |-> <<>>]

\* process.cwd(), and some other directory
Cwd == "cwd"

OtherDir == "other"

\* one external call: who issued it, the directory of the repository it ran
\* in (none for the completion request), the operation, its argument,
\* whether it succeeded, why not, and the text it returned
Call(by, repo, op, arg, ok, why, out) ==
  [by |-> by, repo |-> repo, op |-> op, arg |-> arg, ok |-> ok, why |-> why,
   out |-> out]

Init ==
  /\ history \in 0..MaxHist
  /\ pc = "start"
  /\ entry = ""
  /\ cliOptions = NoOptions
  /\ answers = NoOptions
  /\ exitCode = -1
  /\ prompt = ""
  /\ written = NoFile
  /\ warned = FALSE
  /\ proceed = ""
  /\ options = NoGenerator
  /\ fromCommit = None
  /\ toCommit = None
  /\ maxCommits = None
  /\ commits = <<>>
  /\ i = 1
  /\ details = <<>>
  /\ request = NoRequest
  /\ stream = "none"
  /\ chunks = <<>>
  /\ fullContent = <<>>
  /\ stdout = <<>>
  /\ result = Running
  /\ calls = <<>>

(***************************************************************************)
(* ReleaseNotesGenerator.                                                  *)
(***************************************************************************)
\* a constructor that drops the caller's count
MaxCommitsOption_Ignored(count) == DEFAULT_MAX_COMMITS

\* constructor: options.maxCommits || 5
MaxCommitsOption(count) ==
  IF count # None THEN count ELSE DEFAULT_MAX_COMMITS

\* constructor: this.git = simpleGit(process.cwd())
GeneratorGit == Cwd

\* constructor(options): only client, maxCommits, fromCommit and toCommit
\* are read
Construct(opts) ==
  /\ options' = [built |-> TRUE, repoPath |-> opts.repoPath,
                 deployment |-> opts.deployment,
                 fromCommit |-> opts.fromCommit,
                 toCommit |-> opts.toCommit, maxCommits |-> opts.maxCommits]
  /\ fromCommit' = opts.fromCommit
  /\ toCommit' = opts.toCommit
  /\ maxCommits' = MaxCommitsOption(opts.maxCommits)

\* a library caller builds a generator and calls generateReleaseNotes; the
\* options object may carry a deployment and a repository path
LibraryNewOf(deployments, repoPaths) ==
  /\ pc = "start"
  /\ \E from \in Hashes, to \in Hashes, count \in 0..MaxCount,
        deployment \in deployments, repoPath \in repoPaths :
       /\ (from # None \/ to # None) => count = None
       /\ Construct([repoPath |-> repoPath, deployment |-> deployment,
                     fromCommit |-> from, toCommit |-> to,
                     maxCommits |-> count])
  /\ pc' = "checkGitRepo"
  /\ entry' = "library"
  /\ UNCHANGED <<history, cliOptions, answers, exitCode, prompt, written, warned, proceed,
                 commits, i, details, request, stream, chunks, fullContent,
                 stdout, result, calls>>

\* the options object as ReleaseNotesOptions declares it
LibraryNew == LibraryNewOf({""}, {""})

\* checkGitRepo: both the "not a repository" answer and a failing check end
\* in the catch clause
checkGitRepo ==
  /\ pc = "checkGitRepo"
  /\ \E isRepo \in {"true", "false", "throws"} :
       /\ calls' = Append(calls, Call("generator", GeneratorGit, "checkIsRepo", 0,
                                      isRepo = "true",
                                      IF isRepo = "true" THEN ""
                                      ELSE IF isRepo = "false"
                                      THEN "not a repository"
                                      ELSE "backend",
                                      <<>>))
       /\ IF isRepo = "true"
          THEN /\ pc' = "select"
               /\ UNCHANGED result
          ELSE /\ pc' = "done"
               /\ result' = Threw(<<"Git repository check failed",
                                    IF isRepo = "false"
                                    THEN "Not a git repository"
                                    ELSE "git error">>)
  /\ UNCHANGED <<history, entry, cliOptions, answers, exitCode, prompt, written, warned, proceed,
                 options,
                 fromCommit, toCommit, maxCommits, commits, i, details,
                 request, stream, chunks, fullContent, stdout>>

\* a selection without the incomplete-range branch
SelectionBranch_NoIncomplete(from, to) ==
  IF from # None /\ to # None THEN "range" ELSE "last"

\* generateReleaseNotes: which way the commits are selected
SelectionBranch(from, to) ==
  IF from # None /\ to # None THEN "range"
  ELSE IF from # None \/ to # None THEN "incomplete"
  ELSE "last"

\* an emptiness test that lets every list pass
NoCommits_Never(list) == FALSE

\* log.all.length === 0 in getLastCommits and getCommitsBetween, and
\* commits.length === 0 in generateReleaseNotes
NoCommits(list) == Len(list) = 0

\* generateReleaseNotes after a selection returned: the emptiness check and
\* the entry of getCommitDetails
Selected(all) ==
  IF NoCommits(all)
  THEN /\ pc' = "done"
       /\ result' = Threw(<<"No commits found in the repository">>)
       /\ UNCHANGED <<commits, i, details>>
  ELSE /\ pc' = "getCommitDetails"
       /\ commits' = all
       /\ i' = 1
       /\ details' = <<>>
       /\ UNCHANGED result

SelectionFailed(msg) ==
  /\ pc' = "done"
  /\ result' = Threw(msg)
  /\ UNCHANGED <<commits, i, details>>

\* the outcomes of git.log({ maxCount: count }): the backend may fail, and on
\* a repository without commits git reports an error or an empty log
LogMaxCountOutcomes(h, count) ==
  {[ok |-> FALSE, why |-> "backend", all |-> <<>>]} \cup
  (IF h = 0
   THEN {[ok |-> FALSE, why |-> "no commits yet", all |-> <<>>],
         [ok |-> TRUE, why |-> "", all |-> <<>>]}
   ELSE {[ok |-> TRUE, why |-> "", all |-> LogMaxCount(h, count)]})

\* the outcomes of git.log({ from: `${from}^`, to: to })
LogRangeOutcomes(h, from, to) ==
  {[ok |-> FALSE, why |-> "backend", all |-> <<>>]} \cup
  (IF ParentResolves(h, from) /\ to \in 1..h
   THEN {[ok |-> TRUE, why |-> "", all |-> LogRange(h, from, to)]}
   ELSE {[ok |-> FALSE, why |-> "bad revision", all |-> <<>>]})

\* getLastCommits(count = this.maxCommits), called when no endpoint is set
getLastCommits ==
  /\ pc = "select"
  /\ SelectionBranch(fromCommit, toCommit) = "last"
  /\ \E log \in LogMaxCountOutcomes(history, maxCommits) :
       /\ calls' = Append(calls, Call("generator", GeneratorGit, "log", maxCommits,
                                      log.ok, log.why, <<>>))
       /\ IF ~log.ok
          THEN SelectionFailed(<<"Failed to get git history", "git error">>)
          ELSE IF NoCommits(log.all)
          THEN SelectionFailed(<<"Failed to get git history",
                                 "No commits found in repository history">>)
          ELSE Selected(log.all)
  /\ UNCHANGED <<history, entry, cliOptions, answers, exitCode, prompt, written, warned, proceed,
                 options,
                 fromCommit, toCommit, maxCommits, request, stream, chunks,
                 fullContent, stdout>>

\* getCommitsBetween(this.fromCommit, this.toCommit), called when both
\* endpoints are set
getCommitsBetween ==
  /\ pc = "select"
  /\ SelectionBranch(fromCommit, toCommit) = "range"
  /\ \E log \in LogRangeOutcomes(history, fromCommit, toCommit) :
       /\ calls' = Append(calls, Call("generator", GeneratorGit, "log", fromCommit,
                                      log.ok, log.why, <<>>))
       /\ IF ~log.ok
          THEN SelectionFailed(<<"Failed to get git history between",
                                 "git error">>)
          ELSE IF NoCommits(log.all)
          THEN SelectionFailed(<<"Failed to get git history between",
                                 "No commits found between">>)
          ELSE Selected(log.all)
  /\ UNCHANGED <<history, entry, cliOptions, answers, exitCode, prompt, written, warned, proceed,
                 options,
                 fromCommit, toCommit, maxCommits, request, stream, chunks,
                 fullContent, stdout>>

IncompleteRangeMessage ==
  "Both fromCommit and toCommit must be provided when using commit range"

\* generateReleaseNotes: exactly one endpoint is set
IncompleteRange ==
  /\ pc = "select"
  /\ SelectionBranch(fromCommit, toCommit) = "incomplete"
  /\ pc' = "done"
  /\ result' = Threw(<<IncompleteRangeMessage>>)
  /\ UNCHANGED <<history, entry, cliOptions, answers, exitCode, prompt, written, warned, proceed,
                 options,
                 fromCommit, toCommit, maxCommits, commits, i, details,
                 request, stream, chunks, fullContent, stdout, calls>>

\* a loop that puts each new blob in front
PushDetail_Unshift(list, blob) == <<blob>> \o list

\* getCommitDetails: details.push(blob)
PushDetail(list, blob) == Append(list, blob)

\* a loop that walks the commits from the last to the first
CommitAt_Reversed(list, k) == list[Len(list) - k + 1]

\* getCommitDetails: const commit = commits[i], for the k-th iteration
CommitAt(list, k) == list[k]

\* a loop that shows a commit again when its show failed
AfterShow_RetryFailed(k, ok) == IF ok THEN k + 1 ELSE k

\* getCommitDetails: i++, whether the show succeeded or the catch clause
\* logged its failure
AfterShow(k, ok) == k + 1

\* a loop that stops before the last commit
LoopContinues_StopsEarly(k, list) == k < Len(list)

\* getCommitDetails: i < commits.length, for the k-th iteration (k counts
\* from 1)
LoopContinues(k, list) == k <= Len(list)

\* getCommitDetails: one iteration of the loop, for show outputs of the
\* given lengths
ShowCommitOf(lens) ==
  /\ pc = "getCommitDetails"
  /\ LoopContinues(i, commits)
  /\ \/ \E len \in lens :
          LET show == ShowOutput(CommitAt(commits, i), len) IN
          /\ calls' = Append(calls, Call("generator", GeneratorGit, "show",
                                         CommitAt(commits, i), TRUE, "",
                                         show))
          /\ details' = PushDetail(details, DetailBlob(show))
          /\ i' = AfterShow(i, TRUE)
     \/ /\ calls' = Append(calls, Call("generator", GeneratorGit, "show",
                                       CommitAt(commits, i), FALSE,
                                       "backend", <<>>))
        /\ i' = AfterShow(i, FALSE)
        /\ UNCHANGED details
  /\ UNCHANGED <<history, pc, entry, cliOptions, answers, exitCode, prompt,
                 written, warned, proceed, options,
                 fromCommit, toCommit, maxCommits, commits, request, stream,
                 chunks, fullContent, stdout, result>>

ShowCommit == ShowCommitOf(ShowLens)

\* an assembly that keeps the first blob only
combinedDetails_FirstOnly(commitDetails) ==
  IF commitDetails = <<>> THEN <<>> ELSE commitDetails[1]

\* generateReleaseNotes: commitDetails.join("\n")
combinedDetails(commitDetails) == Join(commitDetails)

\* a prompt whose date line is left out for deployments other than the
\* default one
Prompt_ByDeployment(gitHistory, date) ==
  [gitHistory |-> gitHistory,
   date |-> IF options.deployment \in {"", "gpt-4o-mini"} THEN date ELSE None]

\* generateReleaseNotes: the parts of the prompt that are not literal text,
\* the Git History section and the release date
Prompt(gitHistory, date) == [gitHistory |-> gitHistory, date |-> date]

\* generateReleaseNotes: getCommitDetails returned; the prompt is built on
\* one of the given days and client.chat.completions.create is awaited
CreateCompletionOn(dates) ==
  /\ pc = "getCommitDetails"
  /\ ~LoopContinues(i, commits)
  /\ \E today \in dates :
       LET prompt_ == Prompt(combinedDetails(details), today) IN
       request' = [sent |-> TRUE, model |-> "gpt-4o-mini",
                   date |-> prompt_.date, gitHistory |-> prompt_.gitHistory]
  /\ \E ok \in BOOLEAN :
       /\ calls' = Append(calls, Call("generator", "", "create", 0, ok,
                                      IF ok THEN "" ELSE "backend", <<>>))
       /\ IF ok
          THEN /\ pc' = "stream"
               /\ stream' = "open"
               /\ fullContent' = <<>>
               /\ UNCHANGED result
          ELSE /\ pc' = "done"
               /\ result' = Threw(<<"Failed to generate release notes with AI",
                                    "api error">>)
               /\ UNCHANGED <<stream, fullContent>>
  /\ UNCHANGED <<history, entry, cliOptions, answers, exitCode, prompt, written, warned, proceed,
                 options,
                 fromCommit, toCommit, maxCommits, commits, i, details,
                 chunks, stdout>>

Today == 1

CreateCompletion == CreateCompletionOn({Today})

\* an accumulator that puts each new fragment in front
Accumulate_Prepend(acc, content) == content \o acc

\* generateReleaseNotes: fullContent += content
Accumulate(acc, content) == acc \o content

\* an emptiness test on the untrimmed text
Completion_NoTrim(acc) ==
  IF acc = <<>>
  THEN Threw(<<"Failed to generate release notes with AI",
               "No content returned from Azure OpenAI">>)
  ELSE Returned(Trim(acc))

\* generateReleaseNotes: the outcome once the stream has completed
Completion(acc) ==
  IF Trim(acc) = <<>>
  THEN Threw(<<"Failed to generate release notes with AI",
               "No content returned from Azure OpenAI">>)
  ELSE Returned(Trim(acc))

\* a sink that loses what it is given
Forward_Dropped(out, content) == out

\* generateReleaseNotes: process.stdout.write(content)
Forward(out, content) == Append(out, content)

\* for await (const chunk of stream): one chunk; content is
\* chunk.choices[0]?.delta?.content || ""
StreamChunk ==
  /\ pc = "stream"
  /\ Len(chunks) < MaxChunks
  /\ \E content \in Fragments :
       /\ chunks' = Append(chunks, content)
       /\ IF content # <<>>
          THEN /\ stdout' = Forward(stdout, content)
               /\ fullContent' = Accumulate(fullContent, content)
          ELSE UNCHANGED <<stdout, fullContent>>
  /\ UNCHANGED <<history, pc, entry, cliOptions, answers, exitCode, prompt,
                 written, warned, proceed, options,
                 fromCommit, toCommit, maxCommits, commits, i, details,
                 request, stream, result, calls>>

\* the stream completes normally
StreamEnd ==
  /\ pc = "stream"
  /\ pc' = "done"
  /\ stream' = "ended"
  /\ result' = Completion(fullContent)
  /\ UNCHANGED <<history, entry, cliOptions, answers, exitCode, prompt, written, warned, proceed,
                 options,
                 fromCommit, toCommit, maxCommits, commits, i, details,
                 request, chunks, fullContent, stdout, calls>>

\* a catch clause that settles for the text received so far
StreamFailed_KeepsPartial(acc) == Completion(acc)

\* generateReleaseNotes: the catch clause, entered from the stream loop with
\* the accumulator acc
StreamFailed(acc) ==
  Threw(<<"Failed to generate release notes with AI", "stream error">>)

\* the stream raises an error
StreamError ==
  /\ pc = "stream"
  /\ pc' = "done"
  /\ stream' = "failed"
  /\ result' = StreamFailed(fullContent)
  /\ UNCHANGED <<history, entry, cliOptions, answers, exitCode, prompt, written, warned, proceed,
                 options,
                 fromCommit, toCommit, maxCommits, commits, i, details,
                 request, chunks, fullContent, stdout, calls>>

(***************************************************************************)
(* cli.ts: the command line, the wizard and main.                          *)
(***************************************************************************)
CountFlags == {None, -1, 2}

\* the hashes given with --from-commit / --to-commit: none, root, tip
FlagHashes == {None, 1, MaxHist}

\* the values given with --output-mode and --output-file, "" when not given
OutputModeFlags == {"", "console", "file"}

OutputFileFlags == {"", "RELEASE_NOTES.md"}

\* program.option("--deployment <name>", ..., "gpt-4o-mini")
DEFAULT_DEPLOYMENT == "gpt-4o-mini"

\* runWizard: the default answer of the output filename question
DEFAULT_OUTPUT_FILE == "RELEASE_NOTES.md"

\* program.action: the options parsed from the command line, for the given
\* values of --deployment and --repo-path (both have a default).  apiKey and
\* endpoint say whether the flag or its environment variable is set.
CliParseOf(deployments, repoPaths) ==
  /\ pc = "start"
  /\ \E known \in BOOLEAN, deployment \in deployments, repoPath \in repoPaths,
        mode \in {"", "last", "range"}, count \in CountFlags,
        from \in FlagHashes, to \in FlagHashes,
        outputMode \in OutputModeFlags, outputFile \in OutputFileFlags :
       cliOptions' = [apiKey |-> known, endpoint |-> known,
                      deployment |-> deployment, repoPath |-> repoPath,
                      commitMode |-> mode, commitCount |-> count,
                      fromCommit |-> from, toCommit |-> to,
                      outputMode |-> outputMode, outputFile |-> outputFile]
  /\ pc' = "runWizard"
  /\ entry' = "cli"
  /\ UNCHANGED <<history, answers, exitCode, prompt, written, warned, proceed, calls>>
  /\ UNCHANGED genVars

\* the command line with the defaults of --deployment and --repo-path
CliParse == CliParseOf({DEFAULT_DEPLOYMENT}, {Cwd})

\* runWizard: the names of the questions of the first prompt, in the order
\* they are pushed
BasicQuestions(o) ==
  (IF ~o.apiKey THEN <<"apiKey">> ELSE <<>>) \o
  (IF ~o.endpoint THEN <<"endpoint">> ELSE <<>>) \o
  (IF o.deployment = "" THEN <<"deployment">> ELSE <<>>) \o
  (IF o.repoPath = "" THEN <<"repoPath">> ELSE <<>>) \o
  (IF o.commitMode = "" THEN <<"commitMode">> ELSE <<>>)

\* inquirer.prompt(questions): the last question on the terminal afterwards
Asked(last, questions) ==
  IF questions = <<>> THEN last ELSE questions[Len(questions)]

\* runWizard: the first prompt and the answers built from it; a question is
\* asked only for what neither a flag nor the environment gave
WizardBasic ==
  /\ pc = "runWizard"
  /\ \E asked \in {"last", "range"} :
       answers' = [answers EXCEPT
                     !.apiKey = TRUE,
                     !.endpoint = TRUE,
                     !.deployment =
                       IF cliOptions.deployment # "" THEN cliOptions.deployment
                       ELSE DEFAULT_DEPLOYMENT,
                     !.repoPath =
                       IF cliOptions.repoPath # "" THEN cliOptions.repoPath
                       ELSE Cwd,
                     !.commitMode =
                       IF cliOptions.commitMode # "" THEN cliOptions.commitMode
                       ELSE asked,
                     !.outputMode =
                       IF cliOptions.outputMode # "" THEN cliOptions.outputMode
                       ELSE "console"]
  /\ prompt' = Asked(prompt, BasicQuestions(cliOptions))
  /\ pc' = "wizardCommits"
  /\ UNCHANGED <<history, entry, cliOptions, exitCode, written, warned, proceed, calls>>
  /\ UNCHANGED genVars

\* runWizard, last mode: the count of the flag, or the validated answer
WizardLast ==
  /\ pc = "wizardCommits"
  /\ answers.commitMode = "last"
  /\ \E asked \in 1..MaxCount :
       answers' = [answers EXCEPT !.commitCount =
                     IF cliOptions.commitCount # None
                     THEN cliOptions.commitCount
                     ELSE asked]
  /\ prompt' = IF cliOptions.commitCount # None THEN prompt ELSE "commitCount"
  /\ pc' = "wizardOutput"
  /\ UNCHANGED <<history, entry, cliOptions, exitCode, written, warned, proceed, calls>>
  /\ UNCHANGED genVars

\* runWizard, range mode with both endpoint flags
WizardRangeFlags ==
  /\ pc = "wizardCommits"
  /\ answers.commitMode # "last"
  /\ cliOptions.fromCommit # None /\ cliOptions.toCommit # None
  /\ answers' = [answers EXCEPT !.fromCommit = cliOptions.fromCommit,
                                !.toCommit = cliOptions.toCommit]
  /\ pc' = "wizardOutput"
  /\ UNCHANGED <<history, entry, cliOptions, exitCode, prompt, written, warned, proceed,
                 calls>>
  /\ UNCHANGED genVars

\* Array.prototype.findIndex(c => c.value === v), 0-based
FindIndex(list, v) ==
  IF \E k \in 1..Len(list) : list[k] = v
  THEN (CHOOSE k \in 1..Len(list) :
          list[k] = v /\ \A j \in 1..(k - 1) : list[j] # v) - 1
  ELSE -1

\* an order check that lets two picks of the same commit pass
Reversed_Strict(recentCommits, from, to) ==
  FindIndex(recentCommits, from) < FindIndex(recentCommits, to)

\* runWizard: fromIndex <= toIndex, the test that prints the warning and
\* swaps the picks
Reversed(recentCommits, from, to) ==
  FindIndex(recentCommits, from) <= FindIndex(recentCommits, to)

\* runWizard: the endpoints after the order check on the two picks
SwapIfReversed(recentCommits, from, to) ==
  IF Reversed(recentCommits, from, to)
  THEN [fromCommit |-> to, toCommit |-> from]
  ELSE [fromCommit |-> from, toCommit |-> to]

\* the repository in the other directory has two commits of its own
OtherHistory == 2

OtherHash(k) == 100 + k

\* the outcomes of simpleGit(dir).log({ maxCount: count })
LogOutcomesIn(dir, h, count) ==
  IF dir = Cwd
  THEN LogMaxCountOutcomes(h, count)
  ELSE LET all == LogMaxCount(OtherHistory, count) IN
       {[ok |-> FALSE, why |-> "backend", all |-> <<>>],
        [ok |-> TRUE, why |-> "",
         all |-> [k \in 1..Len(all) |-> OtherHash(all[k])]]}

\* getRecentCommits: the hashes of the last 50 commits, [] on any error
getRecentCommits(log) == IF log.ok THEN log.all ELSE <<>>

\* a wizard that keeps an endpoint given by flag and takes the pick for
\* the other one only
RangeAnswer_FlagFirst(flag, pick) == IF flag # None THEN flag ELSE pick

\* runWizard: answers.fromCommit = commitRange.fromCommit and
\* answers.toCommit = commitRange.toCommit, whatever the flag of that
\* endpoint was
RangeAnswer(flag, pick) == pick

\* runWizard, range mode without both flags: the endpoints are picked from
\* the list of recent commits of the repository at answers.repoPath
WizardRangePick ==
  /\ pc = "wizardCommits"
  /\ answers.commitMode # "last"
  /\ ~(cliOptions.fromCommit # None /\ cliOptions.toCommit # None)
  /\ \E log \in LogOutcomesIn(answers.repoPath, history, RECENT_MAX_COUNT) :
       LET recentCommits == getRecentCommits(log) IN
       /\ calls' = Append(calls, Call("wizard", answers.repoPath, "log",
                                      RECENT_MAX_COUNT, log.ok, log.why,
                                      <<>>))
       /\ IF Len(recentCommits) = 0
          THEN /\ pc' = "exited"
               /\ exitCode' = 1
               /\ UNCHANGED <<answers, prompt, warned>>
          ELSE /\ \E p \in 1..Len(recentCommits), q \in 1..Len(recentCommits) :
                    LET picked ==
                          SwapIfReversed(
                            recentCommits,
                            RangeAnswer(cliOptions.fromCommit,
                                        recentCommits[p]),
                            RangeAnswer(cliOptions.toCommit,
                                        recentCommits[q]))
                    IN  /\ answers' = [answers EXCEPT
                                         !.fromCommit = picked.fromCommit,
                                         !.toCommit = picked.toCommit]
                        /\ warned' = Reversed(recentCommits,
                                              recentCommits[p],
                                              recentCommits[q])
               /\ prompt' = "toCommit"
               /\ pc' = "wizardOutput"
               /\ UNCHANGED exitCode
  /\ UNCHANGED <<history, entry, cliOptions, written, proceed>>
  /\ UNCHANGED genVars

\* runWizard: the output mode is asked when no flag gave it, the filename
\* when the mode is "file" and no flag gave it
WizardOutput ==
  /\ pc = "wizardOutput"
  /\ \E asked \in {"console", "file"} :
       LET outputMode == IF cliOptions.outputMode # ""
                         THEN answers.outputMode ELSE asked
           askFile == outputMode = "file" /\ cliOptions.outputFile = ""
       IN  /\ answers' = [answers EXCEPT
                            !.outputMode = outputMode,
                            !.outputFile = IF askFile THEN DEFAULT_OUTPUT_FILE
                                           ELSE cliOptions.outputFile]
           /\ prompt' = IF askFile THEN "outputFile"
                        ELSE IF cliOptions.outputMode = "" THEN "outputMode"
                        ELSE prompt
  /\ pc' = "confirm"
  /\ UNCHANGED <<history, entry, cliOptions, exitCode, written, warned, proceed, calls>>
  /\ UNCHANGED genVars

\* main: the generator options built from the answers
generatorOptions ==
  IF answers.commitMode = "last"
  THEN [repoPath |-> answers.repoPath, deployment |-> answers.deployment,
        fromCommit |-> None, toCommit |-> None,
        maxCommits |-> answers.commitCount]
  ELSE [repoPath |-> answers.repoPath, deployment |-> answers.deployment,
        fromCommit |-> answers.fromCommit, toCommit |-> answers.toCommit,
        maxCommits |-> None]

\* a main that goes on whatever the answer
Cancelled_Never(answer) == FALSE

\* main: if (!confirm.proceed)
Cancelled(answer) == answer # "yes"

\* main: the confirmation prompt; on yes the generator is built and
\* generateReleaseNotes starts.  main does not read the command-line options
\* again once runWizard has returned, so they are dropped here.
Confirm ==
  /\ pc = "confirm"
  /\ prompt' = "proceed"
  /\ \E answer \in {"yes", "no"} :
       /\ proceed' = answer
       /\ IF Cancelled(answer)
          THEN /\ pc' = "exited"
               /\ exitCode' = 0
               /\ UNCHANGED <<options, fromCommit, toCommit, maxCommits>>
          ELSE /\ Construct(generatorOptions)
               /\ pc' = "checkGitRepo"
               /\ UNCHANGED exitCode
  /\ cliOptions' = NoOptions
  /\ UNCHANGED <<history, entry, answers, written, warned, commits, i, details,
                 request, stream, chunks, fullContent, stdout, result, calls>>

\* a main that writes the file whatever generateReleaseNotes did
WritesFile_Always(res, outputMode) == outputMode = "file"

\* main: writeFileSync is reached when generateReleaseNotes returned and the
\* output mode is "file"
WritesFile(res, outputMode) ==
  res.status = "returned" /\ outputMode = "file"

\* a main that writes the text as it was streamed
FileContent_Untrimmed(releaseNotes) == fullContent

\* main: the second argument of writeFileSync(outputPath, releaseNotes)
FileContent(releaseNotes) == releaseNotes

\* main: generateReleaseNotes returned or threw; in file mode the returned
\* text is written to join(process.cwd(), answers.outputFile), and a failing
\* write ends in the catch clause like a failing generator
MainEnd ==
  /\ pc = "done"
  /\ entry = "cli"
  /\ pc' = "exited"
  /\ IF WritesFile(result, answers.outputMode)
     THEN \E ok \in BOOLEAN :
            IF ok
            THEN /\ written' = [dir |-> Cwd, path |-> answers.outputFile,
                                text |-> FileContent(result.value)]
                 /\ exitCode' = 0
            ELSE /\ exitCode' = 1
                 /\ UNCHANGED written
     ELSE /\ exitCode' = IF result.status = "returned" THEN 0 ELSE 1
          /\ UNCHANGED written
  /\ UNCHANGED <<history, entry, cliOptions, answers, prompt, warned, proceed, calls>>
  /\ UNCHANGED genVars

Next ==
  \/ LibraryNew
  \/ checkGitRepo
  \/ getLastCommits
  \/ getCommitsBetween
  \/ IncompleteRange
  \/ ShowCommit
  \/ CreateCompletion
  \/ StreamChunk
  \/ StreamEnd
  \/ StreamError
  \/ CliParse
  \/ WizardBasic
  \/ WizardLast
  \/ WizardRangeFlags
  \/ WizardRangePick
  \/ WizardOutput
  \/ Confirm
  \/ MainEnd

Spec == Init /\ [][Next]_vars

(***************************************************************************)
(* The detail loop alone, over show outputs of many lengths: the run has   *)
(* passed the repository check and selected the last commits of a history  *)
(* that has some.                                                          *)
(***************************************************************************)
InitDetails ==
  /\ history \in 1..MaxHist
  /\ pc = "getCommitDetails"
  /\ entry = "library"
  /\ cliOptions = NoOptions
  /\ answers = NoOptions
  /\ exitCode = -1
  /\ prompt = ""
  /\ written = NoFile
  /\ warned = FALSE
  /\ proceed = ""
  /\ options = [NoGenerator EXCEPT !.built = TRUE]
  /\ fromCommit = None
  /\ toCommit = None
  /\ maxCommits = MaxCommitsOption(None)
  /\ commits = LogMaxCount(history, maxCommits)
  /\ i = 1
  /\ details = <<>>
  /\ request = NoRequest
  /\ stream = "none"
  /\ chunks = <<>>
  /\ fullContent = <<>>
  /\ stdout = <<>>
  /\ result = Running
  /\ calls = <<Call("generator", GeneratorGit, "checkIsRepo", 0, TRUE, "", <<>>),
               Call("generator", GeneratorGit, "log", maxCommits, TRUE, "", <<>>)>>

ShowCommitAnyLength == ShowCommitOf(WideShowLens)

NextDetails == ShowCommitAnyLength

SpecDetails == InitDetails /\ [][NextDetails]_vars

(***************************************************************************)
(* The runs of generateReleaseNotes on their own, started by a library     *)
(* caller, where every awaited call settles: simple-git resolves or        *)
(* rejects the promises of checkIsRepo, log and show, the client resolves  *)
(* or rejects create, and the stream ends or fails after finitely many     *)
(* chunks.                                                                 *)
(***************************************************************************)
NextRun ==
  \/ LibraryNew
  \/ checkGitRepo
  \/ getLastCommits
  \/ getCommitsBetween
  \/ IncompleteRange
  \/ ShowCommit
  \/ CreateCompletion
  \/ StreamChunk
  \/ StreamEnd
  \/ StreamError

CallsSettle ==
  /\ WF_vars(checkGitRepo)
  /\ WF_vars(getLastCommits)
  /\ WF_vars(getCommitsBetween)
  /\ WF_vars(IncompleteRange)
  /\ WF_vars(ShowCommit)
  /\ WF_vars(CreateCompletion)

StreamIsFinite == WF_vars(StreamEnd \/ StreamError)

SpecRun == Init /\ [][NextRun]_vars /\ CallsSettle /\ StreamIsFinite

(***************************************************************************)
(* The runs up to the completion request, for every deployment, repository *)
(* path and day: the caller may name a deployment and a directory other    *)
(* than the defaults, as the README documents for the library and the      *)
(* --deployment and --repo-path flags allow for the command line.          *)
(***************************************************************************)
Deployments == {DEFAULT_DEPLOYMENT, "gpt-4"}

RepoPaths == {Cwd, OtherDir}

Dates == {Today, Today + 1}

LibraryConfigured == LibraryNewOf({"", "gpt-4"}, {"", OtherDir})

CliConfigured == CliParseOf(Deployments, RepoPaths)

CreateCompletionAnyDay == CreateCompletionOn(Dates)

NextConfigured ==
  \/ LibraryConfigured
  \/ checkGitRepo
  \/ getLastCommits
  \/ getCommitsBetween
  \/ IncompleteRange
  \/ ShowCommit
  \/ CreateCompletionAnyDay
  \/ CliConfigured
  \/ WizardBasic
  \/ WizardLast
  \/ WizardRangeFlags
  \/ WizardRangePick
  \/ WizardOutput
  \/ Confirm
  \/ MainEnd

SpecConfigured == Init /\ [][NextConfigured]_vars

TypeOK ==
  /\ history \in 0..MaxHist
  /\ pc \in {"start", "runWizard", "wizardCommits", "wizardOutput", "confirm",
             "checkGitRepo",
             "select", "getCommitDetails", "stream", "done", "exited"}
  /\ entry \in {"", "library", "cli"}
  /\ exitCode \in {-1, 0, 1}
  /\ prompt \in {"", "apiKey", "endpoint", "deployment", "repoPath",
                 "commitMode", "commitCount", "toCommit", "outputMode",
                 "outputFile", "proceed"}
  /\ written.dir \in {"", Cwd}
  /\ warned \in BOOLEAN
  /\ proceed \in {"", "yes", "no"}
  /\ i \in 1..(MaxHist + 1)
  /\ Len(chunks) <= MaxChunks
  /\ stream \in {"none", "open", "ended", "failed"}
  /\ result.status \in {"running", "returned", "threw"}

(***************************************************************************)
(* Properties.                                                             *)
(***************************************************************************)
\* the calls of one kind the generator has issued, in order
GenCalls(op) == SelectSeq(calls, LAMBDA c : c.by = "generator" /\ c.op = op)

AllGenCalls == SelectSeq(calls, LAMBDA c : c.by = "generator")

\* the generator's log query was issued and the backend answered it
LogAnswered ==
  /\ Len(GenCalls("log")) > 0
  /\ GenCalls("log")[1].why # "backend"

Finished == pc \in {"done", "exited"}

OldestFirst(lo, hi) == [k \in 1..(hi - lo + 1) |-> lo + k - 1]

Min(a, b) == IF a < b THEN a ELSE b

Max(a, b) == IF a < b THEN b ELSE a

RECURSIVE Concat(_)
Concat(parts) ==
  IF parts = <<>> THEN <<>> ELSE Head(parts) \o Concat(Tail(parts))

AllBlank(text) == \A k \in 1..Len(text) : text[k] = " "

Blanks(n) == [k \in 1..n |-> " "]

\* C1: for every pair of commits of the history, given in either order,
\* range selection returns the inclusive span between them oldest first,
\* the older endpoint first and the newer endpoint last.
C1_RangeIsInclusiveSpanOldestFirst ==
  (/\ options.built
   /\ options.fromCommit \in 1..history
   /\ options.toCommit \in 1..history
   /\ LogAnswered)
  => /\ result.status # "threw"
     /\ commits = OldestFirst(Min(options.fromCommit, options.toCommit),
                              Max(options.fromCommit, options.toCommit))

\* C2: for a history of H >= 1 commits and a positive N <= H, last-N
\* selection returns exactly the N most recent commits, newest first.
C2_LastNNewestFirst ==
  (/\ options.built
   /\ options.fromCommit = None /\ options.toCommit = None
   /\ options.maxCommits \in 1..history
   /\ Len(GenCalls("log")) > 0
   /\ GenCalls("log")[1].ok)
  => /\ Len(commits) = options.maxCommits
     /\ \A k \in 1..options.maxCommits : commits[k] = history - k + 1

C2_Witness ==
  /\ options.built
  /\ options.maxCommits = 2
  /\ history = 3
  /\ commits = <<3, 2>>
  /\ pc = "getCommitDetails"

\* C3: for every commit c of the history, the root included, range
\* selection with from = to = c succeeds and returns [c].
C3_SingleCommitRangeSucceeds ==
  (/\ options.built
   /\ options.fromCommit \in 1..history
   /\ options.toCommit = options.fromCommit
   /\ LogAnswered)
  => /\ result.status # "threw"
     /\ commits = <<options.fromCommit>>

OneEndpoint ==
  /\ options.built
  /\ (options.fromCommit = None) # (options.toCommit = None)

ShownOk == SelectSeq(GenCalls("show"), LAMBDA c : c.ok)

\* what the claims expect of the diff kept for a show output of one segment
ExpectedDiff(show) ==
  IF show[1].len > MAX_COMMIT_DIFF_CHARS
  THEN <<[src |-> "show", hash |-> show[1].hash,
          len |-> MAX_COMMIT_DIFF_CHARS],
         [src |-> "\n...[truncated]\n", hash |-> 0,
          len |-> TRUNCATED_MARKER_LEN]>>
  ELSE show

\* the diff content of a blob: what lies between the header line and the
\* footer line
DiffOf(blob) == SubSeq(blob, 3, Len(blob) - 2)

\* C5: a show text longer than 3000 characters is kept as its first 3000
\* characters followed by the truncation marker, a text of at most 3000
\* characters (3000 included) is kept unchanged, and no diff content is
\* longer than 3000 characters plus the marker.
C5_TruncationAtBudget ==
  /\ Len(details) = Len(ShownOk)
  /\ \A k \in 1..Len(details) :
       /\ DiffOf(details[k]) = ExpectedDiff(ShownOk[k].out)
       /\ Length(DiffOf(details[k]))
            <= MAX_COMMIT_DIFF_CHARS + TRUNCATED_MARKER_LEN
       /\ Length(ShownOk[k].out) <= MAX_COMMIT_DIFF_CHARS
            => DiffOf(details[k]) = ShownOk[k].out

C5_Witness ==
  /\ Len(details) = 3
  /\ Length(ShownOk[1].out) = MAX_COMMIT_DIFF_CHARS
  /\ Length(ShownOk[2].out) = MAX_COMMIT_DIFF_CHARS + 1
  /\ Length(ShownOk[3].out) > MAX_COMMIT_DIFF_CHARS + 1
  /\ DiffOf(details[1]) = ShownOk[1].out
  /\ Length(DiffOf(details[2]))
       = MAX_COMMIT_DIFF_CHARS + TRUNCATED_MARKER_LEN
  /\ Length(DiffOf(details[3]))
       = MAX_COMMIT_DIFF_CHARS + TRUNCATED_MARKER_LEN

\* text is body with white space removed at both ends
IsTrimOf(text, body) ==
  /\ text # <<>>
  /\ text[1] # " "
  /\ text[Len(text)] # " "
  /\ \E p \in 0..Len(body), q \in 0..Len(body) :
       body = Blanks(p) \o text \o Blanks(q)

NonEmptyChunks == SelectSeq(chunks, LAMBDA f : f # <<>>)

\* C6: when a stream of fragments completes normally with a non-blank
\* total, the value returned is the trimmed concatenation of the fragments
\* and stdout has received the fragments in arrival order, none lost (an
\* empty fragment carries no text and is not written).
C6_StreamedTextReturnedAndForwarded ==
  (stream = "ended" /\ ~AllBlank(Concat(chunks)))
  => /\ result.status = "returned"
     /\ IsTrimOf(result.value, Concat(chunks))
     /\ stdout = NonEmptyChunks
     /\ Concat(stdout) = Concat(chunks)

C6_Witness ==
  /\ stream = "ended"
  /\ chunks = << <<" ", "b", " ">>, <<"a">> >>
  /\ stdout = chunks
  /\ result = Returned(<<"b", " ", "a">>)

EmptyCompletionError ==
  /\ result.status = "threw"
  /\ result.error[Len(result.error)] = "No content returned from Azure OpenAI"

\* C7: after the stream completes, the run fails with the empty-completion
\* error exactly when the accumulated text is blank (no fragment, only empty
\* or only white space fragments); a returned value is non-empty and has no
\* white space at either end.
C7_EmptyCompletionIffBlank ==
  /\ stream = "ended" => (EmptyCompletionError <=> AllBlank(Concat(chunks)))
  /\ stream = "ended" => result.status \in {"threw", "returned"}
  /\ stream # "ended" => ~EmptyCompletionError
  /\ result.status = "returned"
       => /\ stream = "ended"
          /\ result.value # <<>>
          /\ result.value[1] # " "
          /\ result.value[Len(result.value)] # " "

C7_Witness ==
  /\ stream = "ended"
  /\ chunks = << <<" ">>, <<>> >>
  /\ EmptyCompletionError

\* the kind of the error the run failed with: the text its message starts
\* with
ErrorKind == IF result.error = <<>> THEN "" ELSE Head(result.error)

\* the selection query was answered and selected no commit
SelectedNothing ==
  /\ options.built
  /\ Finished
  /\ commits = <<>>
  /\ LogAnswered

\* C8: on a repository without commits last-mode selection fails with the
\* empty-history error, and a range that covers no commit fails with the
\* empty-range error; each is reported as that kind of error, not as a
\* failed repository query, and no show call or completion request follows.
C8_EmptySelectionErrorKinds ==
  /\ (SelectedNothing /\ history = 0
      /\ options.fromCommit = None /\ options.toCommit = None)
     => ErrorKind = "No commits found in repository history"
  /\ (SelectedNothing /\ GenCalls("log")[1].ok
      /\ options.fromCommit # None /\ options.toCommit # None)
     => ErrorKind = "No commits found between"
  /\ SelectedNothing => (GenCalls("show") = <<>> /\ ~request.sent)

\* C9: getCommitDetails visits every selected commit once, in order, whatever
\* show calls fail, and returns one blob per successful show, in selection
\* order; a failed show leaves the other blobs as they are.
C9_OneBlobPerSuccessfulShow ==
  LET shows == GenCalls("show") IN
  /\ Len(shows) <= Len(commits)
  /\ \A k \in 1..Len(shows) : shows[k].arg = commits[k]
  /\ pc = "getCommitDetails" => (Len(shows) = i - 1 /\ result = Running)
  /\ (commits # <<>> /\ pc # "getCommitDetails") => Len(shows) = Len(commits)
  /\ details = [k \in 1..Len(ShownOk) |-> DetailBlob(ShownOk[k].out)]
  /\ request.sent => request.gitHistory = Join(details)

C9_Witness ==
  /\ Len(commits) = 3
  /\ request.sent
  /\ ~GenCalls("show")[2].ok
  /\ Len(details) = 2
  /\ DiffOf(details[1]) # DiffOf(details[2])

\* C10: when show fails for every selected commit, no prompt is assembled
\* from an empty Git History and no completion request is sent.
C10_NoRequestWithoutBlobs ==
  request.sent => details # <<>>

\* C11: once the completion stream has raised an error, after any number of
\* fragments, generateReleaseNotes has thrown and returned no text, no file
\* is written, the completion request was issued once only, and a
\* command-line run that has ended has ended with status 1.
C11_StreamErrorIsTerminal ==
  stream = "failed" =>
    /\ result.status = "threw"
    /\ result.value = <<>>
    /\ written = NoFile
    /\ Len(GenCalls("create")) = 1
    /\ pc = "exited" => exitCode = 1

\* a command-line run in file mode whose stream failed after fragments with
\* text had been accumulated, and which has ended
C11_Witness ==
  /\ stream = "failed"
  /\ entry = "cli"
  /\ answers.outputMode = "file"
  /\ Len(chunks) >= 1
  /\ Trim(fullContent) # <<>>
  /\ pc = "exited"
  /\ exitCode = 1
  /\ written = NoFile

\* the generator's repository check was issued and did not pass
RepoCheckFailed ==
  /\ Len(AllGenCalls) > 0
  /\ AllGenCalls[1].op = "checkIsRepo"
  /\ ~AllGenCalls[1].ok

\* C12: in a command-line run, once generateReleaseNotes has thrown (for
\* any reason: a per-commit show failure does not make it throw) no file is
\* written, no further call or completion request is issued, and the process
\* ends with exit status 1; when the repository check did not pass, the
\* generator issues no log, show or completion call at all.
C12_FailureEndsRun ==
  [][(entry' = "cli" /\ result'.status = "threw") =>
       /\ written' = NoFile
       /\ pc' = "exited" => exitCode' = 1
       /\ result.status = "threw" => calls' = calls /\ request' = request
       /\ RepoCheckFailed' => Len(AllGenCalls') = 1 /\ ~request'.sent]_vars

\* a command-line run in file mode that has ended after the repository check
\* reported that the directory is not a repository
C12_Witness ==
  /\ entry = "cli"
  /\ answers.outputMode = "file"
  /\ RepoCheckFailed
  /\ AllGenCalls[1].why = "not a repository"
  /\ result.status = "threw"
  /\ pc = "exited"
  /\ exitCode = 1

\* C13: the model named in the completion request is the deployment the
\* caller supplied, with --deployment or as the option `deployment` of the
\* generator.
C13_RequestModelIsDeployment ==
  (request.sent /\ options.deployment # "") =>
    request.model = options.deployment

\* the directory a call of the run is expected to run in: the configured
\* repository path
ConfiguredRepo(c) ==
  IF c.by = "wizard" THEN answers.repoPath ELSE options.repoPath

\* C14: every repository query of the run, the wizard's listing of recent
\* commits and the generator's checkIsRepo, log and show, runs in the
\* directory configured as repoPath.
C14_QueriesRunInRepoPath ==
  \A k \in 1..Len(calls) :
    (calls[k].op # "create" /\ ConfiguredRepo(calls[k]) # "") =>
      calls[k].repo = ConfiguredRepo(calls[k])

\* C15: in last mode the generator is built with a positive count or with
\* none, and the count of its log query is positive: the given count, or 5
\* when none was given.
C15_LastCountIsPositive ==
  (options.built /\ SelectionBranch(fromCommit, toCommit) = "last") =>
    /\ options.maxCommits = None \/ options.maxCommits > 0
    /\ \A k \in 1..Len(GenCalls("log")) :
         /\ GenCalls("log")[k].arg > 0
         /\ GenCalls("log")[k].arg =
              (IF options.maxCommits = None THEN DEFAULT_MAX_COMMITS
               ELSE options.maxCommits)

\* the prompt payload as a function of the outputs of the successful show
\* calls, in the order of the calls, and of the day
ExpectedPrompt(shown, date) ==
  [gitHistory |-> Join([k \in 1..Len(shown) |-> DetailBlob(shown[k].out)]),
   date |-> date]

\* C16: the prompt payload of the completion request is a function of the
\* per-commit show results of the run (which the selection and the
\* repository state determine) and of the current date, and of nothing
\* else: two runs that agree on these send the same payload, whatever the
\* entry point, deployment, repository path or output mode.
C16_PayloadIsFunctionOfShowsAndDate ==
  request.sent =>
    /\ request.date \in Dates
    /\ [gitHistory |-> request.gitHistory, date |-> request.date] =
         ExpectedPrompt(ShownOk, request.date)

\* a command-line run with a deployment and a repository path other than
\* the defaults, in file mode, that sent its request on the second day with
\* two commits shown
C16_Witness ==
  /\ request.sent
  /\ entry = "cli"
  /\ options.deployment = "gpt-4"
  /\ options.repoPath = OtherDir
  /\ answers.outputMode = "file"
  /\ request.date = Today + 1
  /\ Len(ShownOk) = 2
  /\ Len(GenCalls("show")) = 3

RECURSIVE SumOfLengths(_)
SumOfLengths(blobs) ==
  IF blobs = <<>> THEN 0 ELSE Length(Head(blobs)) + SumOfLengths(Tail(blobs))

\* the blobs laid end to end, a newline after each but the last
Delimited(blobs) ==
  Concat([k \in 1..Len(blobs) |->
            IF k < Len(blobs) THEN blobs[k] \o Newline ELSE blobs[k]])

\* C17: the Git History section of the request is the blobs returned by
\* getCommitDetails laid end to end in selection order with one delimiter
\* between neighbours: every blob is there once and whole, so the section
\* is as long as the blobs and the delimiters together.
C17_GitHistoryIsTheBlobsInOrder ==
  request.sent =>
    /\ request.gitHistory = Delimited(details)
    /\ Length(request.gitHistory) =
         SumOfLengths(details) + NEWLINE_LEN * Max(Len(details) - 1, 0)

\* a request whose section holds three blobs, one of them truncated
C17_Witness ==
  /\ request.sent
  /\ Len(details) = 3
  /\ Length(DiffOf(details[1])) # Length(DiffOf(details[2]))
  /\ request.gitHistory # <<>>

\* the command line gives the API key, the endpoint, the deployment, the
\* commit mode with its count or both endpoints, and the output mode, with
\* the output file in file mode
AllSupplied(o) ==
  /\ o.apiKey
  /\ o.endpoint
  /\ o.deployment # ""
  /\ \/ o.commitMode = "last" /\ o.commitCount # None
     \/ o.commitMode = "range" /\ o.fromCommit # None /\ o.toCommit # None
  /\ \/ o.outputMode = "console"
     \/ o.outputMode = "file" /\ o.outputFile # ""

\* C18: when the command line supplies everything, the generator is built
\* and generation starts without any interactive question having been asked.
C18_NoQuestionWhenAllSupplied ==
  [][(AllSupplied(cliOptions) /\ ~options.built /\ options'.built) =>
       prompt' = ""]_vars

\* the operations of the generator's calls, in the order they were issued
GenOps == [k \in 1..Len(AllGenCalls) |-> AllGenCalls[k].op]

\* the order generateReleaseNotes issues its calls in when n commits are
\* selected: the check, the log, one show per commit, the request
FullOrder(n) ==
  <<"checkIsRepo", "log">> \o [k \in 1..n |-> "show"] \o <<"create">>

IsPrefix(s, t) == Len(s) <= Len(t) /\ s = SubSeq(t, 1, Len(s))

\* C19: every step of a run issues at most one call, and the call has
\* returned when the step is over; the generator's calls come in the order
\* repository check, log, show of each selected commit in selection order,
\* completion request; the request comes after the last show has returned,
\* and stream fragments are consumed only after the request has succeeded,
\* with no call issued during the stream.
C19_CallsInOrderOneAtATime ==
  [][/\ Len(calls') <= Len(calls) + 1
     /\ IsPrefix(GenOps', FullOrder(Len(commits')))
     /\ LET shows == GenCalls("show")' IN
        /\ \A k \in 1..Len(shows) : shows[k].arg = commits'[k]
        /\ Len(GenCalls("create")') = 1 =>
             /\ Len(shows) = Len(commits')
             /\ i' = Len(commits') + 1
     /\ chunks' # chunks =>
          /\ calls' = calls
          /\ Len(GenCalls("create")) = 1
          /\ GenCalls("create")[1].ok
          /\ calls[Len(calls)].op = "create"]_vars

\* a command-line run that picked its range in the wizard, showed two
\* commits, sent the request and consumed two fragments
C19_Witness ==
  /\ entry = "cli"
  /\ Len(calls) = 6
  /\ calls[1].by = "wizard"
  /\ GenOps = FullOrder(2)
  /\ Len(chunks) = 2
  /\ stream = "ended"

\* C20: in one run the generator issues the repository check, the log
\* query and the completion request at most once each, and show at most
\* once for each selected commit, whichever of them fail.
C20_NoStepIsRetried ==
  LET shows == GenCalls("show") IN
  /\ Len(GenCalls("checkIsRepo")) <= 1
  /\ Len(GenCalls("log")) <= 1
  /\ Len(GenCalls("create")) <= 1
  /\ \A j, k \in 1..Len(shows) : shows[j].arg = shows[k].arg => j = k

\* a finished run in which two of three shows and the completion request
\* failed
C20_Witness ==
  /\ pc = "done"
  /\ Len(GenCalls("show")) = 3
  /\ Len(ShownOk) = 1
  /\ Len(GenCalls("create")) = 1
  /\ ~GenCalls("create")[1].ok
  /\ result.status = "threw"

\* the wizard listed the recent commits and the user picked two of them
WizardPicked ==
  /\ entry = "cli"
  /\ Len(calls) > 0
  /\ calls[1].by = "wizard"
  /\ answers.fromCommit # None

\* the list the picks were made from: the working directory's commits,
\* newest first
RecentList == LogMaxCount(history, RECENT_MAX_COUNT)

\* the two picks as the user made them: the warning tells that the answers
\* hold them the other way round
PickedFrom == IF warned THEN answers.toCommit ELSE answers.fromCommit

PickedTo == IF warned THEN answers.fromCommit ELSE answers.toCommit

\* C21: after two picks from the newest-first list, the warning was printed
\* and the picks were swapped exactly when the commit picked as from is at
\* the same or a more recent position than the one picked as to; the wizard
\* goes on, and the from of the answers, which is the one the generator is
\* built with, is never strictly newer than the to.
C21_SwapExactlyWhenReversed ==
  WizardPicked =>
    /\ warned <=> (FindIndex(RecentList, PickedFrom) <=
                     FindIndex(RecentList, PickedTo))
    /\ FindIndex(RecentList, PickedFrom) >= 0
    /\ FindIndex(RecentList, PickedTo) >= 0
    /\ pc = "wizardOutput" => exitCode = -1
    /\ FindIndex(RecentList, answers.fromCommit) >=
         FindIndex(RecentList, answers.toCommit)
    /\ answers.fromCommit <= answers.toCommit
    /\ options.built => /\ options.fromCommit = answers.fromCommit
                        /\ options.toCommit = answers.toCommit

\* the user picked the tip as from and an older commit as to: the warning
\* was printed and the generator got them swapped
C21_Witness ==
  /\ WizardPicked
  /\ history = 3
  /\ warned
  /\ PickedFrom = 3
  /\ PickedTo = 2
  /\ options.built
  /\ options.fromCommit = 2
  /\ options.toCommit = 3

\* C22: in every step the accumulator is the concatenation, in arrival
\* order, of the fragments written to stdout so far; both only grow at their
\* end, a step that changes one changes the other, and such a step writes
\* the fragment just consumed to stdout and appends the same fragment to the
\* accumulator.
C22_AccumulatorIsWhatWasForwarded ==
  [][/\ fullContent' = Concat(stdout')
     /\ IsPrefix(fullContent, fullContent')
     /\ IsPrefix(stdout, stdout')
     /\ (stdout' # stdout) <=> (fullContent' # fullContent)
     /\ stdout' # stdout =>
          /\ chunks' = Append(chunks, chunks'[Len(chunks')])
          /\ stdout' = Append(stdout, chunks'[Len(chunks')])
          /\ fullContent' = fullContent \o chunks'[Len(chunks')]]_vars

\* two fragments were consumed while the stream is still open: both were
\* written and the accumulator holds the first followed by the second
C22_Witness ==
  /\ pc = "stream"
  /\ chunks = << <<"a">>, <<" ", "b", " ">> >>
  /\ stdout = chunks
  /\ fullContent = <<"a", " ", "b", " ">>

\* C23: the list getCommitDetails works on is never empty, and as long as
\* no commit is selected (the log query has not been made, has failed or has
\* yielded nothing) no commit is shown, no request is sent, no stream is
\* opened and nothing is returned: a query that yields nothing ends the run
\* with an error.
C23_SelectionIsNonEmpty ==
  /\ pc \in {"getCommitDetails", "stream"} => Len(commits) > 0
  /\ Len(commits) = 0 =>
       /\ details = <<>>
       /\ ~request.sent
       /\ stream = "none"
       /\ result.status # "returned"
       /\ \A k \in 1..Len(calls) : calls[k].op \notin {"show", "create"}
       /\ (\E k \in 1..Len(calls) :
             calls[k].by = "generator" /\ calls[k].op = "log")
          => pc \in {"done", "exited"} /\ result.status = "threw"

\* a repository without commits whose log came back empty: the run failed
\* after the query, nothing was shown or sent
C23_Witness ==
  /\ history = 0
  /\ Len(calls) = 2
  /\ calls[2].op = "log"
  /\ calls[2].ok
  /\ pc = "done"
  /\ commits = <<>>
  /\ result.status = "threw"
  /\ ~request.sent

C25_BothEndpointsOrNeither ==
  entry = "cli" =>
    /\ options.built => ((options.fromCommit = None) <=>
                         (options.toCommit = None))
    /\ options.built => SelectionBranch(fromCommit, toCommit) # "incomplete"
    /\ result # Threw(<<IncompleteRangeMessage>>)
    /\ (/\ pc = "wizardCommits"
        /\ answers.commitMode # "last"
        /\ (cliOptions.fromCommit = None) # (cliOptions.toCommit = None))
       => \A f \in 1..history, t \in 1..history :
            f <= t =>
              ENABLED (/\ WizardRangePick
                       /\ answers'.fromCommit = f
                       /\ answers'.toCommit = t
                       /\ prompt' = "toCommit")

\* --from-commit named the tip and the mode is range: both questions were
\* asked and the answers are the two picks
C25_Witness ==
  /\ entry = "cli"
  /\ history = 3
  /\ pc = "wizardOutput"
  /\ answers.commitMode = "range"
  /\ cliOptions.fromCommit = 3
  /\ cliOptions.toCommit = None
  /\ prompt = "toCommit"
  /\ ~warned
  /\ answers.fromCommit = 1
  /\ answers.toCommit = 2

\* C26: a step that writes the file is the step of main that follows a
\* successful return of generateReleaseNotes, in output mode "file"; no file
\* was written before it, the process ends with it, and the file, named by
\* the output file answer, holds the returned text, which is the streamed
\* text trimmed.  A file once written is not written again, and in any other
\* output mode no file is written, whatever the output file answer.
C26_FileWrittenOnceWithReturnedText ==
  [][/\ written' # written =>
          /\ written = NoFile
          /\ pc = "done" /\ pc' = "exited"
          /\ entry = "cli"
          /\ answers.outputMode = "file"
          /\ result.status = "returned"
          /\ written'.text = result.value
          /\ written'.text = Trim(fullContent)
          /\ written'.path = answers.outputFile
     /\ written # NoFile => written' = written
     /\ answers'.outputMode # "file" => written' = NoFile]_vars

\* file mode: the streamed text had white space at both ends and the file
\* holds it trimmed
C26_Witness ==
  /\ pc = "exited"
  /\ exitCode = 0
  /\ answers.outputMode = "file"
  /\ fullContent = <<" ", "b", " ">>
  /\ result = Returned(<<"b">>)
  /\ written = [dir |-> Cwd, path |-> "RELEASE_NOTES.md", text |-> <<"b">>]

\* generateReleaseNotes is running
RunStarted == options.built /\ pc \notin {"start", "done", "exited"}

\* generateReleaseNotes has returned the notes or has thrown
RunEnded ==
  /\ pc \in {"done", "exited"}
  /\ result.status \in {"returned", "threw"}

\* the detail loop has made one show call for each of the commits before the
\* i-th and none for the others; once it is over it has made one for each
\* selected commit
OneShowPerCommit ==
  LET shows == GenCalls("show") IN
  /\ pc = "getCommitDetails" =>
       /\ i \in 1..(Len(commits) + 1)
       /\ Len(shows) = i - 1
  /\ (request.sent \/ stream # "none") => Len(shows) = Len(commits)
  /\ \A k \in 1..Len(shows) : shows[k].arg = commits[k]

\* a step of the detail loop is one show call and moves to the next commit;
\* a step of the stream loop consumes one chunk, and chunks are consumed in
\* the stream loop only
OneStepPerIteration ==
  /\ i' # i /\ pc = "getCommitDetails" =>
       /\ i' = i + 1
       /\ Len(calls') = Len(calls) + 1
       /\ calls'[Len(calls')].op = "show"
  /\ chunks' # chunks =>
       /\ pc = "stream" /\ pc' = "stream"
       /\ Len(chunks') = Len(chunks) + 1
       /\ SubSeq(chunks', 1, Len(chunks)) = chunks

\* C27: when every awaited call settles and the stream ends or fails, a run
\* of generateReleaseNotes that has started ends, by returning the notes or
\* by throwing; on the way the detail loop makes exactly one iteration (one
\* show call) for each selected commit, in order, and the stream loop one
\* iteration for each chunk delivered.
C27_RunEndsOneIterationEach ==
  /\ RunStarted ~> RunEnded
  /\ []OneShowPerCommit
  /\ [][OneStepPerIteration]_vars

\* a run over three commits and two chunks that returned
C27_Witness ==
  /\ pc = "done"
  /\ result.status = "returned"
  /\ Len(commits) = 3
  /\ i = 4
  /\ Len(GenCalls("show")) = 3
  /\ Len(chunks) = 2
====
